---- MODULE Spec2Model ----
(***************************************************************************)
(* A model of the sodium-wrapper key buffer (sodium::keyvar, keyvar.h),    *)
(* of the symmetric crypter (SodiumCrypter, sodiumcrypter.cpp), of key     *)
(* pairs (KeyPair, keypair.cpp) and of the public-key cryptor (CryptorPK). *)
(*                                                                         *)
(* Key bytes live in guarded memory regions.  A region has an access mode  *)
(* (mprotect): readwrite, readonly or noaccess.  A read of a noaccess      *)
(* region, or a write to a region that is not readwrite, is caught by the  *)
(* operating system and terminates the process.                            *)
(*                                                                         *)
(* Slots are the program's key variables; a slot owns at most one region.  *)
(* The wire holds the last MAC||ciphertext that encrypt() returned.        *)
(***************************************************************************)
EXTENDS Integers, Sequences, FiniteSets, TLC

VARIABLES
    obj,    \* slot -> address of its keydata_ region, or Dead (not in scope)
    heap,   \* address -> region [bytes, mode, fill], or Free
    wire,   \* the last output of encrypt() with what it was made from
    res,    \* the outcome of the last operation
    proc,   \* "running", or "terminated" after a fatal access violation
    kp,     \* the two key pairs the program holds: [pubkey, privkey] each
    th      \* the threads that share key variable 1: whether the caller
            \* serializes them, and each thread's position in its setpass

vars == <<obj, heap, wire, res, proc, kp, th>>

---------------------------------------------------------------------------
(* Sizes fixed by libsodium, as the code names them. *)
KEYSIZE_SECRETBOX == 32
crypto_secretbox_NONCEBYTES == 24
crypto_secretbox_MACBYTES == 16

(* Bounds of the model. *)
MaxSeed == 2           \* distinct outcomes of the random source
MaxPlainLen == 2       \* longest plaintext
SizeBits == 12         \* width of std::size_t in the model (64 in the build)
MaxHexLen == 2         \* longest input of tohex

\* the program's key variables, and the guarded regions they can own
Slots == {1, 2}
Addrs == {1, 2}
Seeds == 1..MaxSeed
Dead == 0
\* keydata_ of a default-constructed or moved-from keyvar: no bytes, no region
Null == -1

RECURSIVE Pow2(_)
Pow2(n) == IF n = 0 THEN 1 ELSE 2 * Pow2(n - 1)

\* std::size_t arithmetic is modulo 2^SizeBits
SizeMod == Pow2(SizeBits)
\* std::vector<unsigned char>::max_size() is PTRDIFF_MAX
VectorMaxSize == Pow2(SizeBits - 1) - 1

Zeros(n) == [i \in 1..n |-> 0]

\* randombytes_buf(): one of the outcomes the random source can give
RandomBytes(n, seed) == [i \in 1..n |-> (seed * 53 + i * 11) % 256]

\* the key sizes the program constructs: the secretbox size and a wrong one
KeySizes == {KEYSIZE_SECRETBOX, KEYSIZE_SECRETBOX \div 2}

Modes == {"readwrite", "readonly", "noaccess"}

\* cap is the vector's capacity(): the bytes of the region, which the size
\* can fall below when a shorter key is assigned
Free == [bytes |-> <<>>, mode |-> "free", fill |-> "none", cap |-> 0]

\* an empty keydata_
Empty == [bytes |-> <<>>, mode |-> "readwrite", fill |-> "none", cap |-> 0]

\* bytes_protected(n): a fresh guarded region, readwrite, n value-initialized
\* (zero) bytes
AllocRegion(n) ==
    [bytes |-> Zeros(n), mode |-> "readwrite", fill |-> "zero", cap |-> n]

\* mprotect enforcement: what the operating system lets through
CanRead(r) == r.mode \in {"readwrite", "readonly"}
CanWrite(r) == r.mode = "readwrite"

\* keyvar::size()
Size(r) == Len(r.bytes)

---------------------------------------------------------------------------
(* The operations of keyvar on its region.  Each returns the region after  *)
(* the operation and whether the operation faulted.                        *)

Ok(r) == [region |-> r, fault |-> FALSE]
Fault(r) == [region |-> r, fault |-> TRUE]

\* noaccess() as a toggle: a region that is no-access already is unlocked
noaccess_toggle(r) ==
    [r EXCEPT !.mode = IF r.mode = "noaccess" THEN "readwrite" ELSE "noaccess"]

\* keyvar::readwrite() / readonly() / noaccess()
readwrite(r) == [r EXCEPT !.mode = "readwrite"]
readonly(r) == [r EXCEPT !.mode = "readonly"]
noaccess(r) == [r EXCEPT !.mode = "noaccess"]

\* the allocator's release without the wipe
deallocate_nowipe(r) == readwrite(r)

\* the allocator's deallocate(): the region is unlocked, zeroed and handed
\* back; this is the region as it is handed back
deallocate(r) == [readwrite(r) EXCEPT !.bytes = Zeros(Len(r.bytes)), !.fill = "zero"]

\* initialize() that unlocks the region first, as destroy() does
initialize_unlocking(r, seed) ==
    Ok([r EXCEPT !.bytes = RandomBytes(Size(r), seed), !.fill = "random",
                 !.mode = "readwrite"])

\* keyvar::initialize(): randombytes_buf_inplace(keydata_) writes every byte
initialize(r, seed) ==
    IF Size(r) > 0 /\ ~CanWrite(r)
    THEN Fault(r)
    ELSE Ok([r EXCEPT !.bytes = RandomBytes(Size(r), seed), !.fill = "random"])

\* the constructor without its readonly() call
keyvar_noreadonly(key_size, init, seed) ==
    IF init THEN initialize(AllocRegion(key_size), seed) ELSE Ok(AllocRegion(key_size))

\* keyvar::keyvar(std::size_t key_size, bool init)
keyvar(key_size, init, seed) ==
    IF init
    THEN LET i == initialize(AllocRegion(key_size), seed)
         IN  IF i.fault THEN i ELSE Ok(readonly(i.region))
    ELSE Ok(AllocRegion(key_size))

\* destroy() without its readwrite() call
destroy_locked(r) ==
    IF Size(r) > 0 /\ ~CanWrite(r)
    THEN Fault(r)
    ELSE Ok([r EXCEPT !.bytes = Zeros(Size(r)), !.fill = "zero"])

\* destroy() that puts the mode back as it was
destroy_relocking(r) ==
    LET w == readwrite(r)
    IN  Ok([w EXCEPT !.bytes = Zeros(Size(w)), !.fill = "zero", !.mode = r.mode])

\* keyvar::destroy(): readwrite(); sodium_memzero(...)
destroy(r) ==
    LET w == readwrite(r)
    IN  IF Size(w) > 0 /\ ~CanWrite(w)
        THEN Fault(w)
        ELSE Ok([w EXCEPT !.bytes = Zeros(Size(w)), !.fill = "zero"])

\* keyvar::keyvar(const keyvar&): the vector's copy constructor reads every
\* byte of the source into a fresh region
keyvar_copy(src) ==
    IF Size(src) > 0 /\ ~CanRead(src)
    THEN Fault(Free)
    ELSE Ok([AllocRegion(Size(src)) EXCEPT !.bytes = src.bytes, !.fill = src.fill])

\* keyvar& operator=(const keyvar&), defaulted: the vector's copy assignment.
\* A source longer than the target's capacity is copied into a fresh region
\* and the old one is released; otherwise the bytes are written over the
\* target's own and the target's size becomes the source's.
keyvar_copy_assign(dst, src) ==
    IF Size(src) > dst.cap
    THEN IF ~CanRead(src)
         THEN [region |-> dst, fault |-> TRUE, realloc |-> FALSE]
         ELSE [region |-> [AllocRegion(Size(src)) EXCEPT !.bytes = src.bytes,
                                                         !.fill = src.fill],
               fault |-> FALSE, realloc |-> TRUE]
    ELSE IF Size(src) > 0 /\ (~CanRead(src) \/ ~CanWrite(dst))
         THEN [region |-> dst, fault |-> TRUE, realloc |-> FALSE]
         ELSE [region |-> [dst EXCEPT !.bytes = src.bytes,
                                      !.fill = IF Size(src) = 0 THEN "none"
                                               ELSE src.fill],
               fault |-> FALSE, realloc |-> FALSE]

\* operator== with its operands swapped: sodium_memcmp first, sizes second
operator_eq_memcmp_first(k1, k2) ==
    IF ~CanRead(k1) \/ ~CanRead(k2) THEN [ret |-> FALSE, fault |-> TRUE]
    ELSE [ret |-> (k1.bytes = k2.bytes /\ Size(k1) = Size(k2)), fault |-> FALSE]

\* operator== without its size test: sodium_memcmp over k1.size() bytes
operator_eq_nosize(k1, k2) ==
    IF Size(k1) > 0 /\ (~CanRead(k1) \/ ~CanRead(k2))
    THEN [ret |-> FALSE, fault |-> TRUE]
    ELSE [ret |-> \A i \in 1..Size(k1) : i <= Size(k2) /\ k1.bytes[i] = k2.bytes[i],
          fault |-> FALSE]

\* operator==(keyvar, keyvar): the size test short-circuits, then
\* sodium_memcmp reads both regions
operator_eq(k1, k2) ==
    IF Size(k1) # Size(k2) THEN [ret |-> FALSE, fault |-> FALSE]
    ELSE IF Size(k1) > 0 /\ (~CanRead(k1) \/ ~CanRead(k2))
         THEN [ret |-> FALSE, fault |-> TRUE]
         ELSE [ret |-> (k1.bytes = k2.bytes), fault |-> FALSE]

---------------------------------------------------------------------------
(* libsodium's secretbox, by its contract: seal returns tag || body, where *)
(* body is the plaintext combined with a key stream of (key, nonce) and    *)
(* tag authenticates (body, nonce) under key; open recomputes the tag and  *)
(* returns the plaintext only when it matches.                             *)

Hello == <<104, 101, 108, 108, 111, 33, 33, 33>>
Plaintexts == {SubSeq(Hello, 1, n) : n \in 0..MaxPlainLen}

Nonce0 == Zeros(crypto_secretbox_NONCEBYTES)
\* Nonce0 incremented
Nonce1 == [Nonce0 EXCEPT ![crypto_secretbox_NONCEBYTES] = 1]
ShortNonce == Zeros(crypto_secretbox_NONCEBYTES - 1)
Nonces == {Nonce0, Nonce1, ShortNonce}

At(seq, i) == IF Len(seq) = 0 THEN 0 ELSE seq[((i - 1) % Len(seq)) + 1]

RECURSIVE Sum(_, _)
Sum(seq, w) ==
    IF seq = <<>> THEN 0
    ELSE (seq[Len(seq)] * (w * Len(seq) + 1 - w) + Sum(SubSeq(seq, 1, Len(seq) - 1), w)) % 256

KeyStream(k, n, i) == (At(k, i) + At(n, i) + i) % 256

Tag(body, n, k) ==
    LET s0 == Sum(body, 0)
        s1 == Sum(body, 1)
    IN  [j \in 1..crypto_secretbox_MACBYTES |->
            (At(k, j) + 3 * At(k, j + crypto_secretbox_MACBYTES)
             + 5 * At(n, j) + 7 * At(n, j + 8)
             + s1 + j * s0 + Len(body)) % 256]

\* crypto_secretbox_easy(c, m, mlen, n, k)
crypto_secretbox_easy(m, n, k) ==
    LET body == [i \in 1..Len(m) |-> (m[i] + KeyStream(k, n, i)) % 256]
    IN  Tag(body, n, k) \o body

\* crypto_secretbox_open_easy(m, c, clen, n, k): 0 and the plaintext, or -1
crypto_secretbox_open_easy(c, n, k) ==
    LET tag == SubSeq(c, 1, crypto_secretbox_MACBYTES)
        body == SubSeq(c, crypto_secretbox_MACBYTES + 1, Len(c))
    IN  IF Len(c) >= crypto_secretbox_MACBYTES /\ tag = Tag(body, n, k)
        THEN [rc |-> 0,
              m |-> [i \in 1..Len(body) |-> (body[i] + 256 - KeyStream(k, n, i)) % 256]]
        ELSE [rc |-> -1, m |-> <<>>]

\* data_t v(size), then filled from data
Vector(size, data) == [i \in 1..size |-> IF i <= Len(data) THEN data[i] ELSE 0]

---------------------------------------------------------------------------
(* keyvar::setpass().  crypto_pwhash is modelled by its contract: it fills *)
(* the output with bytes that depend on the password, the salt and the     *)
(* cost parameters, or fails (out of memory, or an output shorter than     *)
(* crypto_pwhash_BYTES_MIN) and then leaves the output as it was or zeroed. *)

KEYSIZE_SALT == 16
crypto_pwhash_BYTES_MIN == 16

\* strength_type::{low, medium, high}
Strengths == {"low", "medium", "high"}
\* a strength_type value that is none of the three
OtherStrength == "other"

\* (strength_cpu, strength_mem) of the switch, as one number
StrengthCost(strength) ==
    CASE strength = "low" -> 1
      [] strength = "medium" -> 2
      [] strength = "high" -> 3

Passwords == {<<>>, <<112, 119>>}
Salt0 == [i \in 1..KEYSIZE_SALT |-> i]
ShortSalt == SubSeq(Salt0, 1, KEYSIZE_SALT - 1)
Salts == {Salt0, ShortSalt}

\* what crypto_pwhash can return: 0, or -1 with the output kept or zeroed
PwhashOutcomes == {"ok", "nomem_kept", "nomem_wiped"}

\* the bytes crypto_pwhash derives
DerivedBytes(n, password, salt, strength) ==
    [i \in 1..n |-> (7 * Len(password) + 3 * At(password, i) + 5 * At(salt, i)
                     + 31 * StrengthCost(strength) + 17 * i) % 256]

\* crypto_pwhash(out, outlen, passwd, passwdlen, salt, opslimit, memlimit, alg)
crypto_pwhash(out, password, salt, strength, rc) ==
    IF rc = "ok" /\ Size(out) >= crypto_pwhash_BYTES_MIN
    THEN [rc |-> 0,
          out |-> [out EXCEPT !.bytes = DerivedBytes(Size(out), password, salt, strength),
                              !.fill = "derived"]]
    ELSE [rc |-> -1,
          out |-> IF rc = "nomem_kept" THEN out
                  ELSE [out EXCEPT !.bytes = Zeros(Size(out)), !.fill = "zero"]]

SetpassThrew(r, what) == [region |-> r, outcome |-> "runtime_error", what |-> what]

\* setpass() without its closing readonly()
setpass_norelock(r, password, salt, strength, rc) ==
    IF strength \notin Strengths
    THEN SetpassThrew(r, "sodium::keyvar::setpass() wrong strength")
    ELSE IF Len(salt) # KEYSIZE_SALT
    THEN SetpassThrew(r, "sodium::keyvar::setpass() wrong salt size")
    ELSE LET h == crypto_pwhash(readwrite(r), password, salt, strength, rc)
         IN  IF h.rc # 0
             THEN SetpassThrew(h.out, "sodium::keyvar::setpass() crypto_pwhash()")
             ELSE [region |-> h.out, outcome |-> "ok", what |-> ""]

\* setpass() that relocks the key on the failure path too
setpass_relocking(r, password, salt, strength, rc) ==
    IF strength \notin Strengths
    THEN SetpassThrew(r, "sodium::keyvar::setpass() wrong strength")
    ELSE IF Len(salt) # KEYSIZE_SALT
    THEN SetpassThrew(r, "sodium::keyvar::setpass() wrong salt size")
    ELSE LET h == crypto_pwhash(readwrite(r), password, salt, strength, rc)
         IN  IF h.rc # 0
             THEN SetpassThrew(readonly(h.out), "sodium::keyvar::setpass() crypto_pwhash()")
             ELSE [region |-> readonly(h.out), outcome |-> "ok", what |-> ""]

\* setpass() that unlocks the key before it checks its arguments
setpass_unlock_first(r, password, salt, strength, rc) ==
    IF strength \notin Strengths
    THEN SetpassThrew(readwrite(r), "sodium::keyvar::setpass() wrong strength")
    ELSE IF Len(salt) # KEYSIZE_SALT
    THEN SetpassThrew(readwrite(r), "sodium::keyvar::setpass() wrong salt size")
    ELSE LET h == crypto_pwhash(readwrite(r), password, salt, strength, rc)
         IN  IF h.rc # 0
             THEN SetpassThrew(h.out, "sodium::keyvar::setpass() crypto_pwhash()")
             ELSE [region |-> readonly(h.out), outcome |-> "ok", what |-> ""]

\* keyvar::setpass(password, salt, strength)
setpass(r, password, salt, strength, rc) ==
    IF strength \notin Strengths
    THEN SetpassThrew(r, "sodium::keyvar::setpass() wrong strength")
    ELSE IF Len(salt) # KEYSIZE_SALT
    THEN SetpassThrew(r, "sodium::keyvar::setpass() wrong salt size")
    ELSE LET h == crypto_pwhash(readwrite(r), password, salt, strength, rc)
         IN  IF h.rc # 0
             THEN SetpassThrew(h.out, "sodium::keyvar::setpass() crypto_pwhash()")
             ELSE [region |-> readonly(h.out), outcome |-> "ok", what |-> ""]

---------------------------------------------------------------------------
(* setpass() as the steps a thread takes: readwrite(), the writes of       *)
(* crypto_pwhash into the key (the first half of the bytes, then the       *)
(* second), readonly().  Another thread can run between any two of them.   *)

Threads == {1, 2}

\* a thread outside setpass
Idle == [pc |-> "idle", password |-> <<>>, strength |-> ""]
NoThreads == [serialized |-> FALSE, at |-> [t \in Threads |-> Idle]]

\* setpass() without its readwrite()
setpass_unlock_skipped(r) == r

\* readwrite(); // temporarily unlock the key (if not already)
setpass_unlock(r) == readwrite(r)

\* the bytes i of lo..hi are replaced by the derived ones
pwhash_write(r, lo, hi, derived) ==
    LET b == [i \in 1..Size(r) |-> IF lo <= i /\ i <= hi THEN derived[i] ELSE r.bytes[i]]
    IN  [r EXCEPT !.bytes = b, !.fill = IF b = derived THEN "derived" ELSE "mixed"]

\* readonly(); // relock the key
setpass_relock(r) == readonly(r)

---------------------------------------------------------------------------
(* SodiumCrypter.  A call ends "ok" with its output, with an exception     *)
(* ("runtime_error" and its message, or "length_error" from the vector's   *)
(* constructor), or in "abort" when the primitive reads a noaccess key.    *)
(* alloc and prim tell whether the call got as far as allocating its       *)
(* output buffer and as invoking the primitive.                            *)

Returned(out) == [outcome |-> "ok", what |-> "", out |-> out, alloc |-> TRUE, prim |-> TRUE]
Threw(what) == [outcome |-> "runtime_error", what |-> what, out |-> <<>>,
                alloc |-> FALSE, prim |-> FALSE]

\* a ciphertext buffer without room for the MAC
CiphertextSizeNoMac(plaintext_size) == plaintext_size % SizeMod

\* std::size_t ciphertext_size = crypto_secretbox_MACBYTES + plaintext_size;
CiphertextSize(plaintext_size) == (crypto_secretbox_MACBYTES + plaintext_size) % SizeMod

\* std::size_t plaintext_size = ciphertext_size - crypto_secretbox_MACBYTES;
PlaintextSize(ciphertext_size) ==
    (ciphertext_size - crypto_secretbox_MACBYTES + SizeMod) % SizeMod

\* encrypt() without its nonce size check
encrypt_nononcecheck(plaintext, key, nonce) ==
    IF Size(key) # KEYSIZE_SECRETBOX
    THEN Threw("SodiumCrypter::encrypt() key has wrong size")
    ELSE IF ~CanRead(key)
    THEN [Threw("") EXCEPT !.outcome = "abort", !.alloc = TRUE, !.prim = TRUE]
    ELSE Returned(Vector(CiphertextSize(Len(plaintext)),
                         crypto_secretbox_easy(plaintext, nonce, key.bytes)))

\* SodiumCrypter::encrypt(plaintext, key, nonce)
encrypt(plaintext, key, nonce) ==
    LET ciphertext_size == CiphertextSize(Len(plaintext))
    IN  IF Size(key) # KEYSIZE_SECRETBOX
        THEN Threw("SodiumCrypter::encrypt() key has wrong size")
        ELSE IF Len(nonce) # crypto_secretbox_NONCEBYTES
        THEN Threw("SodiumCrypter::encrypt() nonce has wrong size")
        ELSE IF ciphertext_size > VectorMaxSize
        THEN [Threw("") EXCEPT !.outcome = "length_error", !.alloc = TRUE]
        ELSE IF ~CanRead(key)
        THEN [Threw("") EXCEPT !.outcome = "abort", !.alloc = TRUE, !.prim = TRUE]
        ELSE Returned(Vector(ciphertext_size,
                             crypto_secretbox_easy(plaintext, nonce, key.bytes)))

\* decrypt() that ignores what crypto_secretbox_open_easy returns
decrypt_unchecked(ciphertext, key, nonce) ==
    LET plaintext_size == PlaintextSize(Len(ciphertext))
    IN  IF Size(key) # KEYSIZE_SECRETBOX
        THEN Threw("SodiumCrypter::decrypt() key has wrong size")
        ELSE IF Len(nonce) # crypto_secretbox_NONCEBYTES
        THEN Threw("SodiumCrypter::decrypt() nonce has wrong size")
        ELSE IF plaintext_size <= 0
        THEN Threw("SodiumCrypter::decrypt() plaintext negative size")
        ELSE IF plaintext_size > VectorMaxSize
        THEN [Threw("") EXCEPT !.outcome = "length_error", !.alloc = TRUE]
        ELSE IF ~CanRead(key)
        THEN [Threw("") EXCEPT !.outcome = "abort", !.alloc = TRUE, !.prim = TRUE]
        ELSE Returned(Vector(plaintext_size,
                             crypto_secretbox_open_easy(ciphertext, nonce, key.bytes).m))

\* decrypt() that lets a plaintext size of 0 through
decrypt_allowempty(ciphertext, key, nonce) ==
    LET plaintext_size == PlaintextSize(Len(ciphertext))
    IN  IF Size(key) # KEYSIZE_SECRETBOX
        THEN Threw("SodiumCrypter::decrypt() key has wrong size")
        ELSE IF Len(nonce) # crypto_secretbox_NONCEBYTES
        THEN Threw("SodiumCrypter::decrypt() nonce has wrong size")
        ELSE IF plaintext_size > VectorMaxSize
        THEN [Threw("") EXCEPT !.outcome = "length_error", !.alloc = TRUE]
        ELSE IF ~CanRead(key)
        THEN [Threw("") EXCEPT !.outcome = "abort", !.alloc = TRUE, !.prim = TRUE]
        ELSE LET o == crypto_secretbox_open_easy(ciphertext, nonce, key.bytes)
             IN  IF o.rc # 0
                 THEN [Threw("SodiumCrypter::decrypt() message forged (sodium test)")
                          EXCEPT !.alloc = TRUE, !.prim = TRUE]
                 ELSE Returned(Vector(plaintext_size, o.m))

\* SodiumCrypter::decrypt(ciphertext, key, nonce)
decrypt(ciphertext, key, nonce) ==
    LET plaintext_size == PlaintextSize(Len(ciphertext))
    IN  IF Size(key) # KEYSIZE_SECRETBOX
        THEN Threw("SodiumCrypter::decrypt() key has wrong size")
        ELSE IF Len(nonce) # crypto_secretbox_NONCEBYTES
        THEN Threw("SodiumCrypter::decrypt() nonce has wrong size")
        ELSE IF plaintext_size <= 0
        THEN Threw("SodiumCrypter::decrypt() plaintext negative size")
        ELSE IF plaintext_size > VectorMaxSize
        THEN [Threw("") EXCEPT !.outcome = "length_error", !.alloc = TRUE]
        ELSE IF ~CanRead(key)
        THEN [Threw("") EXCEPT !.outcome = "abort", !.alloc = TRUE, !.prim = TRUE]
        ELSE LET o == crypto_secretbox_open_easy(ciphertext, nonce, key.bytes)
             IN  IF o.rc # 0
                 THEN [Threw("SodiumCrypter::decrypt() message forged (sodium test)")
                          EXCEPT !.alloc = TRUE, !.prim = TRUE]
                 ELSE Returned(Vector(plaintext_size, o.m))

---------------------------------------------------------------------------
(* tohex.  A std::string is the sequence of its characters' codes; 0 is    *)
(* the character '\\0'.                                                     *)

\* the character of a hexadecimal digit: '0'..'9', 'a'..'f'
HexDigit(d) == IF d < 10 THEN 48 + d ELSE 87 + d

\* a char reinterpreted as unsigned char
AsByte(c) == c % 256

\* sodium_bin2hex(hex, hex_maxlen, bin, bin_len): NULL when the buffer is
\* too small, else two digits for each byte and a terminating '\\0'
sodium_bin2hex(hex_maxlen, bin) ==
    IF hex_maxlen <= 2 * Len(bin)
    THEN [null |-> TRUE, hex |-> <<>>]
    ELSE [null |-> FALSE,
          hex |-> [i \in 1..(2 * Len(bin) + 1) |->
                      IF i = 2 * Len(bin) + 1 THEN 0
                      ELSE IF i % 2 = 1 THEN HexDigit(bin[(i + 1) \div 2] \div 16)
                      ELSE HexDigit(bin[i \div 2] % 16)]]

\* sodium::tohex(const bytes&): the string is built from the whole of hexbuf
tohex_bytes(in) ==
    LET hexbuf_size == (Len(in) * 2 + 1) % SizeMod
        h == sodium_bin2hex(hexbuf_size, in)
    IN  IF h.null THEN Threw("sodium::tohex(bytes) overflowed")
        ELSE Returned(Vector(hexbuf_size, h.hex))

\* sodium::tohex(const chars&)
tohex_chars(in) ==
    LET hexbuf_size == (Len(in) * 2 + 1) % SizeMod
        h == sodium_bin2hex(hexbuf_size, [i \in 1..Len(in) |-> AsByte(in[i])])
    IN  IF h.null THEN Threw("sodium::tohex(chars) overflowed")
        ELSE Returned(Vector(hexbuf_size, h.hex))

\* SodiumCrypter::tohex(const data_t&): the string is built from
\* hexbuf.data() up to hexbuf.data() + hex_size
SodiumCrypter_tohex(ciphertext) ==
    LET hex_size == (Len(ciphertext) * 2 + 1) % SizeMod
        h == sodium_bin2hex(hex_size, ciphertext)
    IN  IF h.null THEN Threw("SodiumCrypter::tohex() overflowed")
        ELSE Returned(Vector(hex_size, h.hex))

\* the inputs: every sequence of up to MaxHexLen of these bytes (chars)
HexBytes == {0, 9, 10, 65, 171, 255}
HexChars == {0, 9, 10, 65, -85, -1}
SeqsUpTo(S, n) == UNION {[1..k -> S] : k \in 0..n}

---------------------------------------------------------------------------
(* What happens to a MAC||ciphertext between encrypt and decrypt: nothing, *)
(* one bit of one byte is flipped, or it is cut short.                     *)

FlipBits == {0, 7}
ShortLens == {0, 1, crypto_secretbox_MACBYTES - 1}

Flip(x, b) == IF (x \div Pow2(b)) % 2 = 1 THEN x - Pow2(b) ELSE x + Pow2(b)

\* the first and the last byte of the tag and of the body
FlipPositions(len) ==
    {1, crypto_secretbox_MACBYTES, crypto_secretbox_MACBYTES + 1, len} \cap 1..len

Variants(ct) ==
    {<<"none", 0, 0>>}
    \cup {<<"flip", p, b>> : p \in FlipPositions(Len(ct)), b \in FlipBits}
    \cup {<<"trunc", l, 0>> : l \in {x \in ShortLens : x < Len(ct)}}

Apply(ct, v) ==
    IF v[1] = "flip" THEN [ct EXCEPT ![v[2]] = Flip(ct[v[2]], v[3])]
    ELSE IF v[1] = "trunc" THEN SubSeq(ct, 1, v[2])
    ELSE ct

---------------------------------------------------------------------------
(* KeyPair: a public key in a plain byte vector and a private key in       *)
(* guarded memory.                                                         *)

KEYSIZE_PUBKEY == 32
KEYSIZE_PRIVKEY == 32

NoPair == [pubkey |-> <<>>, privkey |-> Empty]

\* the group of the key agreement: residues modulo a prime, one per byte
GroupPrime == 251
GroupBase == 6

RECURSIVE ModExp(_, _)
ModExp(b, e) ==
    IF e = 0 THEN 1
    ELSE LET h == ModExp(b, e \div 2)
         IN  IF e % 2 = 0 THEN (h * h) % GroupPrime ELSE (h * h * b) % GroupPrime

\* the public key of a private key
PubOf(priv) == [i \in 1..Len(priv) |-> ModExp(GroupBase, priv[i])]

\* private keys: random, read-only as constructed or set to no-access
PrivKeys ==
    UNION {{keyvar(KEYSIZE_PRIVKEY, TRUE, seed).region,
            noaccess(keyvar(KEYSIZE_PRIVKEY, TRUE, seed).region)} : seed \in Seeds}

\* public keys: those of the private keys, and one that is a byte short
PubKeys ==
    {PubOf(RandomBytes(KEYSIZE_PRIVKEY, seed)) : seed \in Seeds}
    \cup {SubSeq(PubOf(RandomBytes(KEYSIZE_PRIVKEY, 1)), 1, KEYSIZE_PUBKEY - 1)}

KeyPairs == [pubkey : PubKeys, privkey : PrivKeys]

\* a key pair as it is generated: a random private key and its public key
KeyPairOf(seed) ==
    [pubkey |-> PubOf(RandomBytes(KEYSIZE_PRIVKEY, seed)),
     privkey |-> keyvar(KEYSIZE_PRIVKEY, TRUE, seed).region]

\* the generated pairs, one with its private key set to no-access, and one
\* whose public key is a byte short
CryptorKeyPairs ==
    {KeyPairOf(seed) : seed \in Seeds}
    \cup {[KeyPairOf(1) EXCEPT !.privkey = noaccess(@)],
          [KeyPairOf(1) EXCEPT !.pubkey = SubSeq(@, 1, KEYSIZE_PUBKEY - 1)]}

\* KeyPair equality that looks at the public keys only
operator_eq_KeyPair_pubonly(kp1, kp2) ==
    [ret |-> (Len(kp1.pubkey) = Len(kp2.pubkey) /\ kp1.pubkey = kp2.pubkey),
     fault |-> FALSE]

\* operator==(KeyPair, KeyPair): sizes of the public keys, sodium_memcmp of
\* the public keys, then the private keys' operator==, each only if the one
\* before it held
operator_eq_KeyPair(kp1, kp2) ==
    IF Len(kp1.pubkey) # Len(kp2.pubkey) THEN [ret |-> FALSE, fault |-> FALSE]
    ELSE IF kp1.pubkey # kp2.pubkey THEN [ret |-> FALSE, fault |-> FALSE]
    ELSE operator_eq(kp1.privkey, kp2.privkey)

\* operator!=(KeyPair, KeyPair)
operator_ne_KeyPair(kp1, kp2) ==
    LET e == operator_eq_KeyPair(kp1, kp2)
    IN  [ret |-> ~e.ret, fault |-> e.fault]

---------------------------------------------------------------------------
(* CryptorPK.  The key agreement combines a private key with a public key  *)
(* into a shared secret; the sealing and opening are those of secretbox    *)
(* under the shared secret.                                                *)

NSZPK == 24
MACSIZE == 16

SizeValidationError == "size-validation error"
AuthenticationError == "authentication error"

\* agree(own_private, peer_public) -> shared_secret
agree(privkey, pubkey) == [i \in 1..Len(privkey) |-> ModExp(At(pubkey, i), privkey[i])]

\* encrypt() that seals under an all-zero nonce whatever nonce it is given
CryptorPK_encrypt_fixednonce(plaintext, pubkey, privkey, nonce) ==
    IF Len(pubkey) # KEYSIZE_PUBKEY \/ Size(privkey) # KEYSIZE_PRIVKEY
       \/ Len(nonce) # NSZPK
    THEN Threw(SizeValidationError)
    ELSE IF ~CanRead(privkey)
    THEN [outcome |-> "abort", what |-> "", out |-> <<>>, alloc |-> TRUE, prim |-> TRUE]
    ELSE Returned(crypto_secretbox_easy(plaintext, Zeros(NSZPK),
                                        agree(privkey.bytes, pubkey)))

\* CryptorPK::encrypt(plaintext, pubkey, privkey, nonce)
CryptorPK_encrypt(plaintext, pubkey, privkey, nonce) ==
    IF Len(pubkey) # KEYSIZE_PUBKEY \/ Size(privkey) # KEYSIZE_PRIVKEY
       \/ Len(nonce) # NSZPK
    THEN Threw(SizeValidationError)
    ELSE IF ~CanRead(privkey)
    THEN [outcome |-> "abort", what |-> "", out |-> <<>>, alloc |-> TRUE, prim |-> TRUE]
    ELSE Returned(crypto_secretbox_easy(plaintext, nonce, agree(privkey.bytes, pubkey)))

\* CryptorPK::decrypt(ciphertext_with_mac, privkey, pubkey, nonce)
CryptorPK_decrypt(ciphertext_with_mac, privkey, pubkey, nonce) ==
    IF Len(pubkey) # KEYSIZE_PUBKEY \/ Size(privkey) # KEYSIZE_PRIVKEY
       \/ Len(nonce) # NSZPK \/ Len(ciphertext_with_mac) < MACSIZE
    THEN Threw(SizeValidationError)
    ELSE IF ~CanRead(privkey)
    THEN [outcome |-> "abort", what |-> "", out |-> <<>>, alloc |-> TRUE, prim |-> TRUE]
    ELSE LET o == crypto_secretbox_open_easy(ciphertext_with_mac, nonce,
                                             agree(privkey.bytes, pubkey))
         IN  IF o.rc # 0
             THEN [Threw(AuthenticationError) EXCEPT !.alloc = TRUE, !.prim = TRUE]
             ELSE Returned(o.m)

---------------------------------------------------------------------------
NoRes == [op |-> "none", slot |-> 0, other |-> 0, outcome |-> "ok",
          what |-> "", out |-> <<>>, ret |-> FALSE, prim |-> FALSE,
          alloc |-> FALSE, pre |-> Free, pre2 |-> Free, nonce |-> <<>>,
          inplen |-> 0, tamper |-> "none",
          password |-> <<>>, salt |-> <<>>, strength |-> "", rc |-> "",
          freed |-> Free, input |-> <<>>]

NoWire == [ct |-> <<>>, pt |-> <<>>, key |-> <<>>, nonce |-> <<>>, sent |-> FALSE]

Live(s) == obj[s] # Dead
\* the key variable owns a guarded region (its data() is not a null pointer)
Owns(s) == obj[s] \in Addrs
Region(s) == IF Owns(s) THEN heap[obj[s]] ELSE Empty
\* the allocator's choice of a free region for the key variable s
NewAddr(s) ==
    IF heap[s] = Free THEN s
    ELSE CHOOSE a \in Addrs : heap[a] = Free /\ \A b \in Addrs : heap[b] = Free => a <= b

Done(op, s, pre) == [NoRes EXCEPT !.op = op, !.slot = s, !.pre = pre]
Aborted(op, s, pre) == [Done(op, s, pre) EXCEPT !.outcome = "abort"]

Init ==
    /\ obj = [s \in Slots |-> Dead]
    /\ heap = [a \in Addrs |-> Free]
    /\ wire = NoWire
    /\ res = NoRes
    /\ proc = "running"
    /\ kp = <<NoPair, NoPair>>
    /\ th = NoThreads

\* keyvar k(key_size, init);
Construct(s, n, init, seed) ==
    /\ UNCHANGED <<kp, th>>
    /\ proc = "running" /\ ~Live(s)
    /\ LET k == keyvar(n, init, seed)
           a == NewAddr(s)
       IN  /\ obj' = [obj EXCEPT ![s] = a]
           /\ heap' = [heap EXCEPT ![a] = k.region]
           /\ res' = [Done("construct", s, Free) EXCEPT !.ret = init, !.inplen = n]
    /\ UNCHANGED <<wire, proc>>

\* a copy that shares the source's region instead of allocating its own
CopyConstructShallow(d, s) ==
    /\ UNCHANGED <<kp, th>>
    /\ proc = "running" /\ ~Live(d) /\ Live(s)
    /\ obj' = [obj EXCEPT ![d] = obj[s]]
    /\ res' = [Done("copy", d, Region(s)) EXCEPT !.other = s]
    /\ UNCHANGED <<heap, wire, proc>>

\* keyvar d(k);
CopyConstruct(d, s) ==
    /\ UNCHANGED <<kp, th>>
    /\ proc = "running" /\ ~Live(d) /\ Live(s)
    /\ LET c == keyvar_copy(Region(s))
           a == NewAddr(d)
       IN  IF c.fault
           THEN /\ proc' = "terminated"
                /\ res' = [Aborted("copy", d, Region(s)) EXCEPT !.other = s]
                /\ UNCHANGED <<obj, heap>>
           ELSE /\ IF Size(c.region) = 0
                   THEN obj' = [obj EXCEPT ![d] = Null] /\ UNCHANGED heap
                   ELSE /\ obj' = [obj EXCEPT ![d] = a]
                        /\ heap' = [heap EXCEPT ![a] = c.region]
                /\ res' = [Done("copy", d, Region(s)) EXCEPT !.other = s]
                /\ UNCHANGED proc
    /\ UNCHANGED wire

\* k.initialize();
Initialize(s, seed) ==
    /\ UNCHANGED <<kp, th>>
    /\ proc = "running" /\ Owns(s)
    /\ LET i == initialize(Region(s), seed)
       IN  IF i.fault
           THEN /\ proc' = "terminated"
                /\ res' = Aborted("initialize", s, Region(s))
                /\ UNCHANGED heap
           ELSE /\ heap' = [heap EXCEPT ![obj[s]] = i.region]
                /\ res' = Done("initialize", s, Region(s))
                /\ UNCHANGED proc
    /\ UNCHANGED <<obj, wire>>

\* k.destroy();
Destroy(s) ==
    /\ UNCHANGED <<kp, th>>
    /\ proc = "running" /\ Owns(s)
    /\ LET d == destroy(Region(s))
       IN  IF d.fault
           THEN /\ proc' = "terminated"
                /\ res' = Aborted("destroy", s, Region(s))
                /\ UNCHANGED heap
           ELSE /\ heap' = [heap EXCEPT ![obj[s]] = d.region]
                /\ res' = Done("destroy", s, Region(s))
                /\ UNCHANGED proc
    /\ UNCHANGED <<obj, wire>>

\* k.readwrite();
ReadWrite(s) ==
    /\ UNCHANGED <<kp, th>>
    /\ proc = "running" /\ Owns(s)
    /\ heap' = [heap EXCEPT ![obj[s]] = readwrite(Region(s))]
    /\ res' = Done("readwrite", s, Region(s))
    /\ UNCHANGED <<obj, wire, proc>>

\* k.readonly();
ReadOnly(s) ==
    /\ UNCHANGED <<kp, th>>
    /\ proc = "running" /\ Owns(s)
    /\ heap' = [heap EXCEPT ![obj[s]] = readonly(Region(s))]
    /\ res' = Done("readonly", s, Region(s))
    /\ UNCHANGED <<obj, wire, proc>>

\* k.noaccess();
NoAccess(s) ==
    /\ UNCHANGED <<kp, th>>
    /\ proc = "running" /\ Owns(s)
    /\ heap' = [heap EXCEPT ![obj[s]] = noaccess(Region(s))]
    /\ res' = Done("noaccess", s, Region(s))
    /\ UNCHANGED <<obj, wire, proc>>

\* k.setpass(password, salt, strength);
Setpass(s, password, salt, strength, rc) ==
    /\ UNCHANGED <<kp, th>>
    /\ proc = "running" /\ Owns(s)
    /\ \E p \in {setpass(Region(s), password, salt, strength, rc)} :
           /\ heap' = [heap EXCEPT ![obj[s]] = p.region]
           /\ res' = [Done("setpass", s, Region(s)) EXCEPT
                         !.outcome = p.outcome, !.what = p.what,
                         !.password = password, !.salt = salt,
                         !.strength = strength, !.rc = rc]
    /\ UNCHANGED <<obj, wire, proc>>

\* hex = tohex(in);
ToHex(f, in) ==
    /\ proc = "running"
    /\ \E h \in {CASE f = "tohex_bytes" -> tohex_bytes(in)
                   [] f = "tohex_chars" -> tohex_chars(in)
                   [] f = "SodiumCrypter_tohex" -> SodiumCrypter_tohex(in)} :
           res' = [Done(f, 0, Free) EXCEPT !.outcome = h.outcome, !.what = h.what,
                                          !.out = h.out, !.input = in,
                                          !.inplen = Len(in)]
    /\ UNCHANGED <<obj, heap, wire, proc, kp, th>>

\* the key variable the threads share
Shared == 1

\* with a caller that serializes, a thread enters only when no other thread
\* is inside an operation
MayEnter(t) ==
    th.serialized => \A u \in Threads : th.at[u].pc = "idle"

\* thread t calls k.setpass(password, salt, strength): the argument checks
\* and readwrite()
ThSetpassEnter(t, password, salt, strength) ==
    /\ proc = "running" /\ Owns(Shared) /\ th.at[t].pc = "idle" /\ MayEnter(t)
    /\ LET r == [Done("th_enter", Shared, Region(Shared)) EXCEPT !.other = t]
       IN  IF strength \notin Strengths \/ Len(salt) # KEYSIZE_SALT
           THEN /\ res' = [r EXCEPT !.outcome = "runtime_error",
                                    !.what = setpass(Region(Shared), password, salt,
                                                     strength, "ok").what]
                /\ UNCHANGED <<heap, th>>
           ELSE /\ heap' = [heap EXCEPT ![obj[Shared]] = setpass_unlock(Region(Shared))]
                /\ th' = [th EXCEPT !.at[t] = [pc |-> "unlocked", password |-> password,
                                               strength |-> strength]]
                /\ res' = r
    /\ UNCHANGED <<obj, wire, proc, kp>>

\* thread t is in crypto_pwhash: it fails, or it writes the next half of
\* the derived bytes; a write to a key that is not read-write is fatal
ThSetpassDerive(t, rc) ==
    /\ proc = "running" /\ Owns(Shared) /\ th.at[t].pc \in {"unlocked", "half"}
    /\ LET k == Region(Shared)
           n == Size(k)
           first == th.at[t].pc = "unlocked"
           derived == DerivedBytes(n, th.at[t].password, Salt0, th.at[t].strength)
           failed == first /\ (rc # "ok" \/ n < crypto_pwhash_BYTES_MIN)
           r == [Done("th_derive", Shared, k) EXCEPT !.other = t]
       IN  IF failed /\ rc = "nomem_kept"
           THEN /\ res' = [r EXCEPT !.outcome = "runtime_error",
                                    !.what = "sodium::keyvar::setpass() crypto_pwhash()"]
                /\ th' = [th EXCEPT !.at[t] = Idle]
                /\ UNCHANGED <<heap, proc>>
           ELSE IF n > 0 /\ ~CanWrite(k)
           THEN /\ proc' = "terminated"
                /\ res' = [r EXCEPT !.outcome = "abort"]
                /\ UNCHANGED <<heap, th>>
           ELSE IF failed
           THEN /\ heap' = [heap EXCEPT ![obj[Shared]] =
                                crypto_pwhash(k, th.at[t].password, Salt0,
                                              th.at[t].strength, rc).out]
                /\ res' = [r EXCEPT !.outcome = "runtime_error",
                                    !.what = "sodium::keyvar::setpass() crypto_pwhash()"]
                /\ th' = [th EXCEPT !.at[t] = Idle]
                /\ UNCHANGED proc
           ELSE /\ heap' = [heap EXCEPT ![obj[Shared]] =
                                IF first THEN pwhash_write(k, 1, n \div 2, derived)
                                ELSE pwhash_write(k, n \div 2 + 1, n, derived)]
                /\ th' = [th EXCEPT !.at[t].pc = IF first THEN "half" ELSE "derived"]
                /\ res' = r
                /\ UNCHANGED proc
    /\ UNCHANGED <<obj, wire, kp>>

\* thread t leaves setpass() through readonly()
ThSetpassRelock(t) ==
    /\ proc = "running" /\ Owns(Shared) /\ th.at[t].pc = "derived"
    /\ heap' = [heap EXCEPT ![obj[Shared]] = setpass_relock(Region(Shared))]
    /\ th' = [th EXCEPT !.at[t] = Idle]
    /\ res' = [Done("th_relock", Shared, Region(Shared)) EXCEPT
                  !.other = t, !.password = th.at[t].password,
                  !.strength = th.at[t].strength]
    /\ UNCHANGED <<obj, wire, proc, kp>>

\* thread t calls k.initialize()
ThInitialize(t, seed) ==
    /\ proc = "running" /\ Owns(Shared) /\ th.at[t].pc = "idle" /\ MayEnter(t)
    /\ LET i == initialize(Region(Shared), seed)
           r == [Done("th_initialize", Shared, Region(Shared)) EXCEPT !.other = t]
       IN  IF i.fault
           THEN /\ proc' = "terminated"
                /\ res' = [r EXCEPT !.outcome = "abort"]
                /\ UNCHANGED heap
           ELSE /\ heap' = [heap EXCEPT ![obj[Shared]] = i.region]
                /\ res' = r
                /\ UNCHANGED proc
    /\ UNCHANGED <<obj, wire, kp, th>>

\* keyvar d(std::move(k)); d is keyvar{} and then swaps its keydata_ with k's
MoveConstruct(d, s) ==
    /\ UNCHANGED <<kp, th>>
    /\ proc = "running" /\ ~Live(d) /\ Live(s)
    /\ obj' = [obj EXCEPT ![d] = obj[s], ![s] = Null]
    /\ res' = [Done("move", d, Region(s)) EXCEPT !.other = s]
    /\ UNCHANGED <<heap, wire, proc>>

\* a move assignment that swaps the two buffers instead
MoveAssignSwap(d, s) ==
    /\ UNCHANGED <<kp, th>>
    /\ proc = "running" /\ Live(d) /\ Live(s) /\ d # s
    /\ obj' = [obj EXCEPT ![d] = obj[s], ![s] = obj[d]]
    /\ res' = [Done("move_assign", d, Region(s)) EXCEPT !.other = s, !.pre2 = Region(d)]
    /\ UNCHANGED <<heap, wire, proc>>

\* d = std::move(k); the vector's move assignment releases d's region, hands
\* k's region to d and leaves k empty
MoveAssign(d, s) ==
    /\ UNCHANGED <<kp, th>>
    /\ proc = "running" /\ Live(d) /\ Live(s) /\ d # s
    /\ obj' = [obj EXCEPT ![d] = obj[s], ![s] = Null]
    /\ heap' = IF Owns(d) THEN [heap EXCEPT ![obj[d]] = Free] ELSE heap
    /\ res' = [Done("move_assign", d, Region(s)) EXCEPT
                  !.other = s, !.pre2 = Region(d),
                  !.freed = IF Owns(d) THEN deallocate(Region(d)) ELSE Free]
    /\ UNCHANGED <<wire, proc>>

\* d = k;  a fresh region takes the place of the released one
CopyAssign(d, s) ==
    /\ UNCHANGED <<kp, th>>
    /\ proc = "running" /\ Live(d) /\ Live(s) /\ d # s
    /\ LET c == keyvar_copy_assign(Region(d), Region(s))
           a == IF Owns(d) THEN obj[d] ELSE NewAddr(d)
           r == [Done("copy_assign", d, Region(s)) EXCEPT !.other = s, !.pre2 = Region(d)]
       IN  IF c.fault
           THEN /\ proc' = "terminated"
                /\ res' = [r EXCEPT !.outcome = "abort"]
                /\ UNCHANGED <<obj, heap>>
           ELSE /\ IF Owns(d) \/ c.realloc
                   THEN /\ obj' = [obj EXCEPT ![d] = a]
                        /\ heap' = [heap EXCEPT ![a] = c.region]
                   ELSE UNCHANGED <<obj, heap>>
                /\ res' = [r EXCEPT !.alloc = c.realloc,
                                    !.freed = IF Owns(d) /\ c.realloc
                                              THEN deallocate(Region(d)) ELSE Free]
                /\ UNCHANGED proc
    /\ UNCHANGED wire

\* k1 == k2
Equals(a, b) ==
    /\ UNCHANGED <<kp, th>>
    /\ proc = "running" /\ Live(a) /\ Live(b)
    /\ LET e == operator_eq(Region(a), Region(b))
           r == [Done("equals", a, Region(a)) EXCEPT !.other = b, !.pre2 = Region(b)]
       IN  IF e.fault
           THEN /\ proc' = "terminated"
                /\ res' = [r EXCEPT !.outcome = "abort"]
           ELSE /\ res' = [r EXCEPT !.ret = e.ret]
                /\ UNCHANGED proc
    /\ UNCHANGED <<obj, heap, wire>>

\* the key variable goes out of scope, at the end of its block or while an
\* exception of the operation before unwinds the stack (ret): the allocator
\* releases the region
Destruct(s) ==
    /\ UNCHANGED <<kp, th>>
    /\ proc = "running" /\ Live(s)
    /\ heap' = IF Owns(s) THEN [heap EXCEPT ![obj[s]] = Free] ELSE heap
    /\ obj' = [obj EXCEPT ![s] = Dead]
    /\ res' = [Done("destruct", s, Region(s)) EXCEPT
                  !.ret = (res.outcome \in {"runtime_error", "length_error"}),
                  !.what = res.op,
                  !.freed = IF Owns(s) THEN deallocate(Region(s)) ELSE Free]
    /\ UNCHANGED <<wire, proc>>

\* kp1 == kp2, kp1 != kp2
KeyPairCompare(op, a, b) ==
    /\ proc = "running"
    /\ LET e == IF op = "kp_eq" THEN operator_eq_KeyPair(kp[a], kp[b])
                ELSE operator_ne_KeyPair(kp[a], kp[b])
           r == [Done(op, a, kp[a].privkey) EXCEPT !.other = b, !.pre2 = kp[b].privkey]
       IN  IF e.fault
           THEN /\ proc' = "terminated"
                /\ res' = [r EXCEPT !.outcome = "abort"]
           ELSE /\ res' = [r EXCEPT !.ret = e.ret]
                /\ UNCHANGED proc
    /\ UNCHANGED <<obj, heap, wire, kp, th>>

\* ciphertext = cryptor.encrypt(plaintext, A.pubkey(), B.privkey(), nonce);
EncryptPK(a, b, plaintext, nonce) ==
    /\ proc = "running"
    /\ \E e \in {CryptorPK_encrypt(plaintext, kp[a].pubkey, kp[b].privkey, nonce)} :
           /\ res' = [Done("pk_encrypt", a, kp[b].privkey) EXCEPT
                         !.other = b, !.outcome = e.outcome, !.what = e.what,
                         !.out = e.out, !.alloc = e.alloc, !.prim = e.prim,
                         !.nonce = nonce, !.inplen = Len(plaintext)]
           /\ proc' = IF e.outcome = "abort" THEN "terminated" ELSE proc
           /\ wire' = IF e.outcome = "ok"
                      THEN [ct |-> e.out, pt |-> plaintext, key |-> <<a, b>>,
                            nonce |-> nonce, sent |-> TRUE]
                      ELSE wire
    /\ UNCHANGED <<obj, heap, kp, th>>

\* plaintext = cryptor.decrypt(received, B.privkey(), A.pubkey(), nonce);
DecryptPK(a, b, nonce, v) ==
    /\ proc = "running"
    /\ v \in Variants(wire.ct)
    /\ \E received \in {Apply(wire.ct, v)} :
       \E d \in {CryptorPK_decrypt(received, kp[b].privkey, kp[a].pubkey, nonce)} :
           /\ res' = [Done("pk_decrypt", a, kp[b].privkey) EXCEPT
                         !.other = b, !.outcome = d.outcome, !.what = d.what,
                         !.out = d.out, !.alloc = d.alloc, !.prim = d.prim,
                         !.nonce = nonce, !.inplen = Len(received), !.tamper = v[1]]
           /\ proc' = IF d.outcome = "abort" THEN "terminated" ELSE proc
    /\ UNCHANGED <<obj, heap, wire, kp, th>>

\* ciphertext = sc.encrypt(plaintext, k, nonce);
Encrypt(s, plaintext, nonce) ==
    /\ UNCHANGED <<kp, th>>
    /\ proc = "running" /\ Live(s)
    /\ \E e \in {encrypt(plaintext, Region(s), nonce)} :
           /\ res' = [Done("encrypt", s, Region(s)) EXCEPT
                         !.outcome = e.outcome, !.what = e.what, !.out = e.out,
                         !.alloc = e.alloc, !.prim = e.prim, !.nonce = nonce,
                         !.inplen = Len(plaintext)]
           /\ proc' = IF e.outcome = "abort" THEN "terminated" ELSE proc
           /\ wire' = IF e.outcome = "ok"
                      THEN [ct |-> e.out, pt |-> plaintext, key |-> Region(s).bytes,
                            nonce |-> nonce, sent |-> TRUE]
                      ELSE wire
    /\ UNCHANGED <<obj, heap>>

\* plaintext = sc.decrypt(received, k, nonce); received is what was sent,
\* as it is or changed on the way
Decrypt(s, nonce, v) ==
    /\ UNCHANGED <<kp, th>>
    /\ proc = "running" /\ Live(s)
    /\ v \in Variants(wire.ct)
    /\ \E received \in {Apply(wire.ct, v)} :
       \E d \in {decrypt(received, Region(s), nonce)} :
           /\ res' = [Done("decrypt", s, Region(s)) EXCEPT
                         !.outcome = d.outcome, !.what = d.what, !.out = d.out,
                         !.alloc = d.alloc, !.prim = d.prim, !.nonce = nonce,
                         !.inplen = Len(received), !.tamper = v[1]]
           /\ proc' = IF d.outcome = "abort" THEN "terminated" ELSE proc
    /\ UNCHANGED <<obj, heap, wire>>

AllVariants ==
    {<<"none", 0, 0>>}
    \cup {<<"flip", p, b>> : p \in UNION {FlipPositions(crypto_secretbox_MACBYTES + n) :
                                           n \in 0..MaxPlainLen},
                             b \in FlipBits}
    \cup {<<"trunc", l, 0>> : l \in ShortLens}

---------------------------------------------------------------------------
(* The key buffer: every operation of keyvar on two key variables. *)
Next ==
    \/ \E s \in Slots, n \in KeySizes, init \in BOOLEAN, seed \in Seeds :
          Construct(s, n, init, seed)
    \/ \E d \in Slots, s \in Slots : CopyConstruct(d, s)
    \/ \E s \in Slots, seed \in Seeds : Initialize(s, seed)
    \/ \E s \in Slots : Destroy(s)
    \/ \E s \in Slots : ReadWrite(s)
    \/ \E s \in Slots : ReadOnly(s)
    \/ \E s \in Slots : NoAccess(s)
    \/ \E a \in Slots, b \in Slots : Equals(a, b)
    \/ \E s \in Slots : Destruct(s)

Spec == Init /\ [][Next]_vars

(* The symmetric crypter with one key variable. *)
BoxSlots == {1}

NextBox ==
    \/ \E s \in BoxSlots, n \in KeySizes, init \in BOOLEAN, seed \in Seeds :
          Construct(s, n, init, seed)
    \/ \E s \in BoxSlots : Destroy(s)
    \/ \E s \in BoxSlots : ReadWrite(s)
    \/ \E s \in BoxSlots : ReadOnly(s)
    \/ \E s \in BoxSlots : NoAccess(s)
    \/ \E s \in BoxSlots : Destruct(s)
    \/ \E s \in BoxSlots, p \in Plaintexts, n \in Nonces : Encrypt(s, p, n)
    \/ \E s \in BoxSlots, n \in Nonces, v \in AllVariants : Decrypt(s, n, v)

SpecBox == Init /\ [][NextBox]_vars

(* The key buffer as the key of the crypter: every operation, with one     *)
(* plaintext and one way of cutting the ciphertext short.                  *)
NextAll ==
    \/ Next
    \/ \E s \in Slots, n \in {Nonce0, ShortNonce} :
          Encrypt(s, SubSeq(Hello, 1, MaxPlainLen), n)
    \/ \E s \in Slots, n \in {Nonce0, ShortNonce},
          v \in {<<"none", 0, 0>>, <<"trunc", crypto_secretbox_MACBYTES - 1, 0>>} :
          Decrypt(s, n, v)

SpecAll == Init /\ [][NextAll]_vars

(* The key buffer with assignment and moves. *)
NextKey ==
    \/ Next
    \/ \E d \in Slots, s \in Slots : MoveConstruct(d, s)
    \/ \E d \in Slots, s \in Slots : MoveAssign(d, s)
    \/ \E d \in Slots, s \in Slots : CopyAssign(d, s)

SpecKey == Init /\ [][NextKey]_vars

(* Two key pairs, compared. *)
InitPair ==
    /\ obj = [s \in Slots |-> Dead]
    /\ heap = [a \in Addrs |-> Free]
    /\ wire = NoWire
    /\ res = NoRes
    /\ proc = "running"
    /\ kp \in KeyPairs \X KeyPairs
    /\ th = NoThreads

NextPair ==
    \/ \E a \in Slots, b \in Slots : KeyPairCompare("kp_eq", a, b)
    \/ \E a \in Slots, b \in Slots : KeyPairCompare("kp_ne", a, b)

SpecPair == InitPair /\ [][NextPair]_vars

(* The public-key cryptor between two key pairs. *)
InitPK ==
    /\ obj = [s \in Slots |-> Dead]
    /\ heap = [a \in Addrs |-> Free]
    /\ wire = NoWire
    /\ res = NoRes
    /\ proc = "running"
    /\ kp \in CryptorKeyPairs \X CryptorKeyPairs
    /\ th = NoThreads

NextPK ==
    \/ \E a \in Slots, b \in Slots, p \in {<<>>, SubSeq(Hello, 1, MaxPlainLen)},
          n \in {Nonce0, Nonce1} :
          EncryptPK(a, b, p, n)
    \/ \E a \in Slots, b \in Slots, n \in {Nonce0, Nonce1},
          v \in {<<"none", 0, 0>>, <<"trunc", MACSIZE - 1, 0>>} :
          DecryptPK(a, b, n, v)

SpecPK == InitPK /\ [][NextPK]_vars

(* The hex conversions. *)
NextHex ==
    \/ \E in \in SeqsUpTo(HexBytes, MaxHexLen) : ToHex("tohex_bytes", in)
    \/ \E in \in SeqsUpTo(HexChars, MaxHexLen) : ToHex("tohex_chars", in)
    \/ \E in \in SeqsUpTo(HexBytes, MaxHexLen) : ToHex("SodiumCrypter_tohex", in)

SpecHex == Init /\ [][NextHex]_vars

(* Two threads that call setpass() and initialize() on one key buffer,     *)
(* serialized by their caller or not.                                      *)
InitThreads ==
    /\ obj = [s \in Slots |-> IF s = Shared THEN s ELSE Dead]
    /\ heap = [a \in Addrs |-> IF a = obj[Shared]
                               THEN keyvar(KEYSIZE_SECRETBOX, TRUE, 1).region
                               ELSE Free]
    /\ wire = NoWire
    /\ res = NoRes
    /\ proc = "running"
    /\ kp = <<NoPair, NoPair>>
    /\ th \in {[NoThreads EXCEPT !.serialized = b] : b \in BOOLEAN}

NextThreads ==
    \/ \E t \in Threads, password \in Passwords, salt \in Salts,
          strength \in {"high", OtherStrength} :
          ThSetpassEnter(t, password, salt, strength)
    \/ \E t \in Threads, rc \in PwhashOutcomes : ThSetpassDerive(t, rc)
    \/ \E t \in Threads : ThSetpassRelock(t)
    \/ \E t \in Threads, seed \in Seeds : ThInitialize(t, seed)

SpecThreads == InitThreads /\ [][NextThreads]_vars

(* One key buffer whose content is random or derived from a password, as  *)
(* the key of the crypter.                                                 *)
NextPass ==
    \/ \E s \in BoxSlots, n \in KeySizes, init \in BOOLEAN, seed \in Seeds :
          Construct(s, n, init, seed)
    \/ \E s \in BoxSlots, seed \in Seeds : Initialize(s, seed)
    \/ \E s \in BoxSlots : Destroy(s)
    \/ \E s \in BoxSlots : ReadWrite(s)
    \/ \E s \in BoxSlots : ReadOnly(s)
    \/ \E s \in BoxSlots : NoAccess(s)
    \/ \E s \in BoxSlots, password \in Passwords, salt \in Salts,
          strength \in Strengths \cup {OtherStrength}, rc \in PwhashOutcomes :
          Setpass(s, password, salt, strength, rc)
    \/ \E s \in BoxSlots : Destruct(s)
    \/ \E s \in BoxSlots, n \in {Nonce0, ShortNonce} :
          Encrypt(s, SubSeq(Hello, 1, MaxPlainLen), n)
    \/ \E s \in BoxSlots, n \in {Nonce0, ShortNonce},
          v \in {<<"none", 0, 0>>, <<"flip", 1, 0>>} :
          Decrypt(s, n, v)

SpecPass == Init /\ [][NextPass]_vars

---------------------------------------------------------------------------
(* Properties. *)

KeySized(r) == Size(r) = KEYSIZE_SECRETBOX
NonceSized(n) == Len(n) = crypto_secretbox_NONCEBYTES
IsNoAccess(r) == r.mode = "noaccess"
SizeErrors ==
    {"SodiumCrypter::encrypt() key has wrong size",
     "SodiumCrypter::encrypt() nonce has wrong size",
     "SodiumCrypter::decrypt() key has wrong size",
     "SodiumCrypter::decrypt() nonce has wrong size",
     "SodiumCrypter::decrypt() plaintext negative size"}
AuthError == "SodiumCrypter::decrypt() message forged (sodium test)"

\* decrypt was given what encrypt returned, with the key and the nonce that
\* encrypt was given
Authentic ==
    /\ wire.sent /\ res.tamper = "none"
    /\ res.pre.bytes = wire.key /\ res.nonce = wire.nonce

\* C1: decrypt(encrypt(P, K, N), K, N) returns exactly P, for every plaintext
\* P, the empty one included, every key K of size KEYSIZE_SECRETBOX (that can
\* be read) and every nonce N of size crypto_secretbox_NONCEBYTES.
C1_RoundTrip ==
    (res.op = "decrypt" /\ Authentic /\ CanRead(res.pre))
        => (res.outcome = "ok" /\ res.out = wire.pt)

\* C2: decrypt with a key and a nonce of the right sizes and a ciphertext
\* shorter than crypto_secretbox_MACBYTES fails with the size-validation
\* runtime_error, before the buffer allocation and before the open primitive.
C2_ShortCiphertextRejected ==
    (res.op = "decrypt" /\ KeySized(res.pre) /\ NonceSized(res.nonce)
        /\ res.inplen < crypto_secretbox_MACBYTES)
        => (res.outcome = "runtime_error" /\ res.what \in SizeErrors
            /\ ~res.alloc /\ ~res.prim)

\* C3: decrypt with inputs of the right sizes (key, nonce, and a ciphertext
\* longer than crypto_secretbox_MACBYTES) returns a plaintext only when the
\* ciphertext is what encrypt returned under the same key and nonce,
\* unmodified; given a tampered ciphertext, another key of the same size or
\* another nonce, it fails (the key being readable) with the one
\* authentication error and no output.
C3_AuthenticOrAuthError ==
    (res.op = "decrypt" /\ KeySized(res.pre) /\ NonceSized(res.nonce)
        /\ res.inplen > crypto_secretbox_MACBYTES)
        => /\ res.outcome = "ok" => Authentic
           /\ (~Authentic /\ CanRead(res.pre))
                 => (res.outcome = "runtime_error" /\ res.what = AuthError
                     /\ res.out = <<>>)

C3_Witness ==
    /\ res.op = "decrypt" /\ res.tamper = "flip"
    /\ KeySized(res.pre) /\ NonceSized(res.nonce)
    /\ res.pre.bytes = wire.key /\ res.nonce = wire.nonce
    /\ res.outcome = "runtime_error" /\ res.what = AuthError /\ res.prim

\* C4: in encrypt and in decrypt, a key or a nonce of a wrong size raises a
\* size-validation error before the seal/open primitive is invoked, and no
\* output is produced.
C4_SizeCheckedBeforePrimitive ==
    (res.op \in {"encrypt", "decrypt"}
        /\ (~KeySized(res.pre) \/ ~NonceSized(res.nonce)))
        => (res.outcome = "runtime_error" /\ res.what \in SizeErrors
            /\ ~res.prim /\ ~res.alloc /\ res.out = <<>>)

C4_Witness ==
    /\ res.op = "encrypt" /\ KeySized(res.pre) /\ CanRead(res.pre)
    /\ ~NonceSized(res.nonce)
    /\ res.outcome = "runtime_error" /\ ~res.prim

\* C5: the output of encrypt, given a valid (readable) key and nonce, has
\* length MACBYTES + P.size(); a successful decrypt of C returns a plaintext
\* of length C.size() - MACBYTES.
C5_Lengths ==
    /\ (res.op = "encrypt" /\ KeySized(res.pre) /\ CanRead(res.pre)
           /\ NonceSized(res.nonce))
          => (res.outcome = "ok"
              /\ Len(res.out) = crypto_secretbox_MACBYTES + res.inplen)
    /\ (res.op = "encrypt" /\ res.outcome = "ok")
          => Len(res.out) = crypto_secretbox_MACBYTES + res.inplen
    /\ (res.op = "decrypt" /\ res.outcome = "ok")
          => Len(res.out) = res.inplen - crypto_secretbox_MACBYTES

C5_Witness ==
    /\ res.op = "decrypt" /\ res.outcome = "ok"
    /\ Len(res.out) = MaxPlainLen /\ res.inplen = crypto_secretbox_MACBYTES + MaxPlainLen

\* C6 (as stated): while a key buffer is in no-access mode, initialize,
\* equality comparison, copy-construction from it and its use as the key of
\* encrypt/decrypt all end in process termination.
C6_NoAccessAlwaysTerminates ==
    /\ (res.op \in {"initialize", "copy", "encrypt", "decrypt"} /\ IsNoAccess(res.pre))
          => (res.outcome = "abort" /\ proc = "terminated")
    /\ (res.op = "equals" /\ (IsNoAccess(res.pre) \/ IsNoAccess(res.pre2)))
          => (res.outcome = "abort" /\ proc = "terminated")

\* C6 (amended): while a key buffer is in no-access mode, every operation
\* that gets as far as reading or writing its bytes ends in process
\* termination: initialize, copy-construction from it, equality with a buffer
\* of the same size, encrypt once its size checks have passed and decrypt
\* once its size checks and its allocation have passed.  Equality with a
\* buffer of another size returns false, and encrypt/decrypt stopped by a
\* check raise their exception, without the buffer being read.
C6_NoAccessTerminatesWhenRead ==
    /\ (res.op \in {"initialize", "copy"} /\ IsNoAccess(res.pre))
          => (res.outcome = "abort" /\ proc = "terminated")
    /\ (res.op = "equals" /\ (IsNoAccess(res.pre) \/ IsNoAccess(res.pre2)))
          => IF Size(res.pre) = Size(res.pre2)
             THEN res.outcome = "abort" /\ proc = "terminated"
             ELSE res.outcome = "ok" /\ ~res.ret /\ proc = "running"
    /\ (res.op = "encrypt" /\ IsNoAccess(res.pre))
          => IF KeySized(res.pre) /\ NonceSized(res.nonce)
             THEN res.outcome = "abort" /\ proc = "terminated"
             ELSE res.outcome = "runtime_error" /\ ~res.prim /\ proc = "running"
    /\ (res.op = "decrypt" /\ IsNoAccess(res.pre))
          => IF KeySized(res.pre) /\ NonceSized(res.nonce)
                /\ res.inplen > crypto_secretbox_MACBYTES
             THEN res.outcome = "abort" /\ proc = "terminated"
             ELSE res.outcome \in {"runtime_error", "length_error"}
                  /\ ~res.prim /\ proc = "running"
    /\ (res.outcome = "abort") <=> (proc = "terminated")

C6_Witness ==
    /\ res.op = "decrypt" /\ IsNoAccess(res.pre) /\ KeySized(res.pre)
    /\ res.inplen > crypto_secretbox_MACBYTES
    /\ res.outcome = "abort" /\ proc = "terminated"

\* C7: keyvar(n, true) is a buffer of n random bytes in read-only mode;
\* keyvar(n, false) is a buffer of n bytes in read-write mode that has not
\* been randomized.
C7_Construct ==
    res.op = "construct"
        => LET k == Region(res.slot)
           IN  /\ Size(k) = res.inplen
               /\ IF res.ret
                  THEN /\ k.mode = "readonly" /\ k.fill = "random"
                       /\ \E seed \in Seeds : k.bytes = RandomBytes(res.inplen, seed)
                  ELSE /\ k.mode = "readwrite" /\ k.fill # "random"
                       /\ \A seed \in Seeds : k.bytes # RandomBytes(res.inplen, seed)

C7_Witness ==
    /\ res.op = "construct" /\ res.ret
    /\ Region(res.slot).mode = "readonly" /\ Region(res.slot).fill = "random"
    /\ Size(Region(res.slot)) = KEYSIZE_SECRETBOX

\* C8: initialize() on a read-write buffer replaces all its bytes with fresh
\* random bytes, keeps its size and leaves it read-write; on a read-only or
\* no-access buffer (a key just built with init=true is read-only) it
\* terminates the process.
C8_Initialize ==
    res.op = "initialize"
        => LET k == Region(res.slot)
           IN  IF res.pre.mode = "readwrite"
               THEN /\ res.outcome = "ok" /\ proc = "running"
                    /\ Size(k) = Size(res.pre) /\ k.mode = "readwrite"
                    /\ k.fill = "random"
                    /\ \E seed \in Seeds : k.bytes = RandomBytes(Size(res.pre), seed)
               ELSE /\ res.outcome = "abort" /\ proc = "terminated"
                    /\ k = res.pre

C8_Witness ==
    /\ res.op = "initialize" /\ res.pre.mode = "readonly" /\ res.pre.fill = "random"
    /\ res.outcome = "abort" /\ proc = "terminated"

\* C9: destroy() succeeds in every access mode, and afterwards every byte of
\* the buffer is zero and size() is what it was.
C9_Destroy ==
    res.op = "destroy"
        => /\ res.outcome = "ok" /\ proc = "running"
           /\ Region(res.slot).bytes = Zeros(Size(res.pre))
           /\ Size(Region(res.slot)) = Size(res.pre)

C9_Witness ==
    /\ res.op = "destroy" /\ res.pre.mode = "noaccess"
    /\ res.pre.bytes # Zeros(Size(res.pre)) /\ Size(res.pre) = KEYSIZE_SECRETBOX
    /\ Region(res.slot).bytes = Zeros(KEYSIZE_SECRETBOX)

\* C10: copying a read-write or read-only buffer yields a new buffer with
\* the same size and bytes, in read-write mode whatever the source's mode;
\* the source keeps its bytes, size and mode; the two own separate regions,
\* and no later operation on one key variable changes the other's buffer.
C10_CopyState ==
    /\ (res.op = "copy" /\ res.pre.mode \in {"readwrite", "readonly"})
          => /\ res.outcome = "ok"
             /\ Region(res.slot).bytes = res.pre.bytes
             /\ Region(res.slot).mode = "readwrite"
             /\ Region(res.other) = res.pre
    /\ \A s \in Slots, u \in Slots : (s # u /\ Live(s) /\ Live(u)) => obj[s] # obj[u]

C10_Frame ==
    \A s \in Slots : (Live(s) /\ res'.slot # s) => (obj'[s] = obj[s] /\ Region(s)' = Region(s))

C10_Copy == []C10_CopyState /\ [][C10_Frame]_vars

C10_Witness ==
    /\ res.op = "copy" /\ res.pre.mode = "readonly" /\ res.outcome = "ok"
    /\ Region(res.slot).mode = "readwrite" /\ Region(res.other).mode = "readonly"
    /\ Region(res.slot).bytes = Region(res.other).bytes

\* C11: after a move construction or a move assignment from S to D, D holds
\* the bytes and the size S had, in the region S had, and S is empty.
C11_Move ==
    res.op \in {"move", "move_assign"} =>
        /\ res.outcome = "ok" /\ proc = "running"
        /\ Region(res.slot) = res.pre
        /\ Region(res.slot).bytes = res.pre.bytes
        /\ Size(Region(res.slot)) = Size(res.pre)
        /\ Live(res.other)
        /\ Size(Region(res.other)) = 0

\* a move assignment of a filled read-only key over another key
C11_Witness ==
    /\ res.op = "move_assign"
    /\ Size(res.pre) = KEYSIZE_SECRETBOX /\ res.pre.fill = "random"
    /\ Size(res.pre2) > 0
    /\ Region(res.slot).bytes = res.pre.bytes

\* C12: a key buffer that has a size n > 0 keeps that size through every
\* operation, except that it becomes 0 when the buffer is moved from.
C12_SizeStep ==
    \A s \in Slots :
        (Live(s) /\ Size(Region(s)) > 0 /\ obj'[s] # Dead) =>
            \/ Size(Region(s))' = Size(Region(s))
            \/ /\ Size(Region(s))' = 0
               /\ res'.op \in {"move", "move_assign"} /\ res'.other = s

C12_SizeFixed == [][C12_SizeStep]_vars

\* C13: setpass with a salt of KEYSIZE_SALT bytes and one of the three
\* strengths, when the derivation succeeds, returns normally and leaves the
\* buffer read-only, holding the derived bytes, whatever its mode was before;
\* its size is unchanged.
C13_Setpass ==
    (/\ res.op = "setpass"
     /\ Len(res.salt) = KEYSIZE_SALT /\ res.strength \in Strengths
     /\ res.rc = "ok" /\ Size(res.pre) >= crypto_pwhash_BYTES_MIN) =>
        LET k == Region(res.slot)
        IN  /\ res.outcome = "ok" /\ proc = "running"
            /\ k.mode = "readonly"
            /\ k.bytes = DerivedBytes(Size(res.pre), res.password, res.salt, res.strength)
            /\ k.fill = "derived"
            /\ Size(k) = Size(res.pre)

\* a key that was no-access before is read-only with derived bytes after
C13_Witness ==
    /\ res.op = "setpass" /\ res.outcome = "ok"
    /\ res.pre.mode = "noaccess" /\ res.pre.fill = "random"
    /\ Region(res.slot).mode = "readonly"
    /\ Region(res.slot).bytes # res.pre.bytes

\* C14: setpass with a salt of the wrong size or with an unrecognized
\* strength throws a runtime_error and leaves the bytes, the size and the
\* access mode of the buffer as they were.
C14_SetpassRejected ==
    (/\ res.op = "setpass"
     /\ (Len(res.salt) # KEYSIZE_SALT \/ res.strength \notin Strengths)) =>
        /\ res.outcome = "runtime_error" /\ proc = "running"
        /\ res.what \in {"sodium::keyvar::setpass() wrong strength",
                          "sodium::keyvar::setpass() wrong salt size"}
        /\ Region(res.slot) = res.pre

\* a short salt offered to a read-only key holding random bytes
C14_Witness ==
    /\ res.op = "setpass" /\ res.outcome = "runtime_error"
    /\ Len(res.salt) = KEYSIZE_SALT - 1 /\ res.strength \in Strengths
    /\ res.pre.mode = "readonly" /\ res.pre.fill = "random"
    /\ Region(res.slot) = res.pre

\* C15: a comparison k1 == k2 that returns, returns true exactly when the two
\* keys have the same size and the same bytes; keys of different sizes always
\* compare false; a key compared with itself compares true; and k2 == k1 ends
\* as k1 == k2 does.  (The only comparison that does not return is the one
\* that reads a no-access key.)
C15_Equality ==
    res.op = "equals" =>
        /\ res.outcome \in {"ok", "abort"}
        /\ res.outcome = "ok" =>
               (res.ret <=> (Size(res.pre) = Size(res.pre2) /\ res.pre.bytes = res.pre2.bytes))
        /\ Size(res.pre) # Size(res.pre2) => (res.outcome = "ok" /\ ~res.ret)
        /\ res.outcome = "abort" => (IsNoAccess(res.pre) \/ IsNoAccess(res.pre2))
        /\ (res.slot = res.other /\ res.outcome = "ok") => res.ret
        /\ operator_eq(res.pre2, res.pre) = [ret |-> res.ret, fault |-> res.outcome = "abort"]
        /\ Region(res.slot) = res.pre /\ Region(res.other) = res.pre2

\* two distinct key variables with the same random bytes compare equal
C15_Witness ==
    /\ res.op = "equals" /\ res.outcome = "ok" /\ res.ret
    /\ res.slot # res.other
    /\ res.pre.fill = "random" /\ Size(res.pre) = KEYSIZE_SECRETBOX

PubEqual(a, b) == Len(kp[a].pubkey) = Len(kp[b].pubkey) /\ kp[a].pubkey = kp[b].pubkey
PrivEqual(a, b) ==
    /\ Size(kp[a].privkey) = Size(kp[b].privkey)
    /\ kp[a].privkey.bytes = kp[b].privkey.bytes

\* C16: a key pair comparison that returns: == is true exactly when the
\* public keys are equal (size and bytes) and the private keys are equal; a
\* difference in the public keys alone or in the private keys alone makes it
\* false; != returns the negation of ==.  (A comparison does not return
\* only when the public keys are equal and a private key is no-access.)
C16_KeyPairEquality ==
    res.op \in {"kp_eq", "kp_ne"} =>
        LET a == res.slot
            b == res.other
        IN  /\ res.outcome \in {"ok", "abort"}
            /\ (res.op = "kp_eq" /\ res.outcome = "ok") =>
                   (res.ret <=> (PubEqual(a, b) /\ PrivEqual(a, b)))
            /\ (res.op = "kp_ne" /\ res.outcome = "ok") =>
                   (res.ret <=> ~(PubEqual(a, b) /\ PrivEqual(a, b)))
            /\ ~PubEqual(a, b) => res.outcome = "ok"
            /\ res.outcome = "abort" =>
                   (IsNoAccess(kp[a].privkey) \/ IsNoAccess(kp[b].privkey))
            /\ operator_ne_KeyPair(kp[a], kp[b]).ret = ~operator_eq_KeyPair(kp[a], kp[b]).ret

\* two pairs with the same public key and different private keys are unequal
C16_Witness ==
    /\ res.op = "kp_eq" /\ res.outcome = "ok" /\ ~res.ret
    /\ res.slot # res.other
    /\ PubEqual(res.slot, res.other) /\ ~PrivEqual(res.slot, res.other)

\* the bytes of a region are all zero
Zeroed(r) == r.bytes = Zeros(Size(r))

\* C17: a key buffer that goes out of scope, at the end of its block or
\* while an exception unwinds, is released whatever its access mode, and the
\* region handed back holds only zero bytes; every step that releases a
\* region hands it back zeroed.
C17_ScopeExit ==
    res.op = "destruct" =>
        /\ res.outcome = "ok" /\ proc = "running"
        /\ obj[res.slot] = Dead
        /\ Size(res.pre) > 0 =>
               (res.freed # Free /\ Zeroed(res.freed) /\ Size(res.freed) = Size(res.pre))

C17_ReleaseStep ==
    \A a \in Addrs :
        (heap[a] # Free /\ heap'[a] = Free) =>
            (res'.freed = deallocate(heap[a]) /\ Zeroed(res'.freed))

C17_ZeroedBeforeRelease == []C17_ScopeExit /\ [][C17_ReleaseStep]_vars

\* a no-access key holding derived bytes is released zeroed while the
\* exception of a failed decrypt unwinds
C17_Witness ==
    /\ res.op = "destruct" /\ res.ret /\ res.what = "decrypt"
    /\ res.pre.mode = "readonly" /\ res.pre.fill = "derived"
    /\ ~Zeroed(res.pre) /\ Zeroed(res.freed) /\ Size(res.freed) = KEYSIZE_SECRETBOX

\* C18: in every reachable state a key buffer that is read-only holds bytes
\* written by random initialization or by password derivation, never the
\* zero bytes of a fresh or destroyed buffer.
C18_ReadOnlyHoldsKey ==
    \A s \in Slots :
        (Owns(s) /\ Region(s).mode = "readonly" /\ Size(Region(s)) > 0) =>
            Region(s).fill \in {"random", "derived"}

\* C19: CryptorPK::encrypt(P, A.public, B.private, N), when it returns, returns
\* MACSIZE + P.size() bytes; CryptorPK::decrypt of these bytes with
\* (B.private, A.public, N) returns P, and with a nonce other than N it fails
\* with the authentication error.
C19_RoundTripPK ==
    /\ (res.op = "pk_encrypt" /\ res.outcome = "ok") =>
           (Len(res.out) = MACSIZE + res.inplen /\ wire.ct = res.out)
    /\ (/\ res.op = "pk_decrypt" /\ wire.sent /\ res.tamper = "none"
        /\ wire.key = <<res.slot, res.other>>) =>
           IF res.nonce = wire.nonce
           THEN res.outcome = "ok" /\ res.out = wire.pt
           ELSE res.outcome = "runtime_error" /\ res.what = AuthenticationError

\* a plaintext sealed between two different key pairs is returned by decrypt
C19_Witness ==
    /\ res.op = "pk_decrypt" /\ res.outcome = "ok"
    /\ wire.key = <<res.slot, res.other>> /\ res.slot # res.other
    /\ Len(wire.pt) = MaxPlainLen /\ res.out = wire.pt
    /\ Len(wire.ct) = MACSIZE + MaxPlainLen
    /\ kp[1] # kp[2]

\* C20: SodiumCrypter::decrypt with a key of KEYSIZE_SECRETBOX bytes, a nonce
\* of NONCEBYTES bytes and an input of exactly MACBYTES bytes throws the
\* size error "plaintext negative size" without allocating the plaintext and
\* without calling crypto_secretbox_open_easy.
C20_BareTagRejected ==
    (/\ res.op = "decrypt"
     /\ KeySized(res.pre) /\ NonceSized(res.nonce)
     /\ res.inplen = crypto_secretbox_MACBYTES) =>
        /\ res.outcome = "runtime_error" /\ proc = "running"
        /\ res.what = "SodiumCrypter::decrypt() plaintext negative size"
        /\ res.what \in SizeErrors
        /\ ~res.alloc /\ ~res.prim
        /\ res.out = <<>>

\* the bare tag that encrypt returned for the empty plaintext, offered to
\* decrypt with the key and the nonce it was made with
C20_Witness ==
    /\ res.op = "decrypt" /\ res.tamper = "none" /\ wire.sent
    /\ wire.pt = <<>> /\ Len(wire.ct) = crypto_secretbox_MACBYTES
    /\ res.inplen = crypto_secretbox_MACBYTES
    /\ res.pre.bytes = wire.key /\ CanRead(res.pre) /\ res.nonce = wire.nonce
    /\ res.outcome = "runtime_error"

\* the mode operation of the given name, applied to a region
ModeOp(op, r) ==
    CASE op = "readwrite" -> readwrite(r)
      [] op = "readonly" -> readonly(r)
      [] op = "noaccess" -> noaccess(r)

\* C21: noaccess(), readonly() and readwrite() on a key buffer with bytes
\* return normally from any prior mode, leave the buffer in the mode asked
\* for, with the bytes and the size it had; applying the same one again
\* changes nothing; and after noaccess(), a readonly() or readwrite() makes
\* the same bytes readable again.
C21_ModeChange ==
    (res.op \in Modes /\ Size(res.pre) > 0) =>
        LET k == Region(res.slot)
        IN  /\ res.outcome = "ok" /\ proc = "running"
            /\ k.mode = res.op
            /\ k.bytes = res.pre.bytes /\ Size(k) = Size(res.pre)
            /\ k = [res.pre EXCEPT !.mode = res.op]
            /\ ModeOp(res.op, k) = k
            /\ ModeOp(res.op, ModeOp(res.op, res.pre)) = ModeOp(res.op, res.pre)
            /\ (res.pre.mode = "noaccess" /\ res.op # "noaccess") =>
                   (CanRead(k) /\ k.bytes = res.pre.bytes)

\* a no-access key with random bytes is made read-only again
C21_Witness ==
    /\ res.op = "readonly" /\ res.pre.mode = "noaccess"
    /\ res.pre.fill = "random" /\ Size(res.pre) = KEYSIZE_SECRETBOX
    /\ CanRead(Region(res.slot)) /\ Region(res.slot).bytes = res.pre.bytes

\* C22: a step of setpass ends in a fatal access violation only when the
\* threads are not serialized, and then it is a write of the derivation to
\* a key that another thread has made read-only in between; when the calls
\* are serialized no setpass reaches a fatal violation, and each one that
\* derives leaves the key read-only with its derived bytes.
C22_SetpassThreads ==
    /\ (res.op \in {"th_enter", "th_derive", "th_relock"} /\ res.outcome = "abort") =>
           /\ ~th.serialized /\ proc = "terminated"
           /\ res.op = "th_derive" /\ res.pre.mode = "readonly"
    /\ th.serialized =>
           /\ \A t \in Threads, u \in Threads :
                  (th.at[t].pc # "idle" /\ th.at[u].pc # "idle") => t = u
           /\ proc = "terminated" => res.op = "th_initialize"
           /\ res.op = "th_relock" =>
                  Region(Shared) =
                      setpass(res.pre, res.password, Salt0, res.strength, "ok").region

\* without serialization, a thread's derivation writes to the key after the
\* other thread has relocked it
C22_Witness ==
    /\ ~th.serialized /\ proc = "terminated"
    /\ res.op = "th_derive" /\ res.outcome = "abort"
    /\ res.pre.mode = "readonly"
    /\ th.at[res.other].pc \in {"unlocked", "half"}

HexDigits == {HexDigit(d) : d \in 0..15}
ToHexOps == {"tohex_bytes", "tohex_chars", "SodiumCrypter_tohex"}

\* the string starts with the two digits of each input byte, in input order
DigitsOfInput(out, in) ==
    /\ Len(out) >= 2 * Len(in)
    /\ \A i \in 1..Len(in) :
           /\ out[2 * i - 1] = HexDigit(AsByte(in[i]) \div 16)
           /\ out[2 * i] = HexDigit(AsByte(in[i]) % 16)

\* C23: tohex returns, for an input of n bytes, a string of exactly 2*n
\* characters, all of them hexadecimal digits, two for each input byte in
\* input order.
C23_ToHex ==
    res.op \in ToHexOps =>
        /\ res.outcome = "ok"
        /\ Len(res.out) = 2 * Len(res.input)
        /\ \A i \in 1..Len(res.out) : res.out[i] \in HexDigits
        /\ DigitsOfInput(res.out, res.input)

\* the arguments pass the checks of setpass and the derivation fails
DerivationFails ==
    /\ res.op = "setpass"
    /\ res.strength \in Strengths /\ Len(res.salt) = KEYSIZE_SALT
    /\ (res.rc # "ok" \/ Size(res.pre) < crypto_pwhash_BYTES_MIN)

\* C24: when setpass passes its strength and salt checks and the derivation
\* fails, setpass throws the runtime_error of the derivation and the key is
\* left read-write, whatever its mode was before the call; its size is as
\* before.
C24_SetpassFailureUnlocked ==
    DerivationFails =>
        /\ res.outcome = "runtime_error" /\ proc = "running"
        /\ res.what = "sodium::keyvar::setpass() crypto_pwhash()"
        /\ Region(res.slot).mode = "readwrite"
        /\ Size(Region(res.slot)) = Size(res.pre)

\* a read-only key with random bytes is read-write after the failed call
C24_Witness ==
    /\ DerivationFails /\ res.rc = "nomem_kept"
    /\ res.pre.mode = "readonly" /\ res.pre.fill = "random"
    /\ Region(res.slot).mode = "readwrite"
    /\ Region(res.slot).bytes = res.pre.bytes

\* C25: destroy() returns with the key read-write whatever its mode was
\* before, and an initialize() or a setpass() that follows it on that key
\* does not end in a fatal violation: initialize() returns, and setpass()
\* returns or throws, and returns when its arguments are right and the
\* derivation succeeds.
C25_DestroyState ==
    res.op = "destroy" =>
        /\ res.outcome = "ok" /\ proc = "running"
        /\ Region(res.slot).mode = "readwrite"

C25_NextStep ==
    (res.op = "destroy" /\ res'.op \in {"initialize", "setpass"}
     /\ res'.slot = res.slot) =>
        /\ res'.outcome # "abort" /\ proc' = "running"
        /\ res'.op = "initialize" => res'.outcome = "ok"
        /\ (/\ res'.op = "setpass" /\ res'.rc = "ok"
            /\ res'.strength \in Strengths /\ Len(res'.salt) = KEYSIZE_SALT
            /\ Size(res'.pre) >= crypto_pwhash_BYTES_MIN) => res'.outcome = "ok"

C25_DestroyUnlocks == []C25_DestroyState /\ [][C25_NextStep]_vars

\* a no-access key with random bytes is read-write and zeroed after destroy()
C25_Witness ==
    /\ res.op = "destroy" /\ res.pre.mode = "noaccess" /\ res.pre.fill = "random"
    /\ Region(res.slot).mode = "readwrite" /\ Zeroed(Region(res.slot))

============================================================================
